---- MODULE Spec2Model ----
(***************************************************************************)
(* State-machine model of the two polling views of the load-tracking       *)
(* client: FishList (the list of loads, src/unnamed/part_000) and          *)
(* ProvenancePage (src/fish_client/src/views/fish_provenance.js).          *)
(*                                                                         *)
(* The browser is single threaded.  A macrotask (a user event, a timer     *)
(* expiry, the arrival of an HTTP response) runs to completion; the        *)
(* second .then() callback of the refresh chain is a microtask that runs   *)
(* right after the first one, before any other macrotask.  The variable    *)
(* microtask holds the instance whose second callback is queued, and       *)
(* every macrotask is guarded by microtask = NoInst.                       *)
(***************************************************************************)
EXTENDS Integers, Sequences, FiniteSets

(* ------------------------------ bounds -------------------------------- *)

\* Number of view instances (calls of oninit) in one behaviour.
MaxInst == 2

\* Longest collection the backend returns from the record pool.
MaxRecs == 2

(* --------------------------- program constants ------------------------ *)

PAGE_SIZE == 50

(* ------------------------------ identities ---------------------------- *)

\* api.getPublicKey() of an unauthenticated viewer (a falsy value).
NoKey == "nokey"

\* The authenticated viewer's key, and another participant's key.
ViewerKey == "K"
OtherKey == "O"

\* The module-level _filter before any setFilter call.
Undefined == "undefined"

Inst == 1..MaxInst
NoInst == 0

(* ------------------------------ record data --------------------------- *)

Prop(reporters, updates) == [reporters |-> reporters, updates |-> updates]

Rec(id, owner, custodian, properties) ==
    [recordId |-> id, owner |-> owner, custodian |-> custodian,
     properties |-> properties]

\* Owned by the viewer, reported by somebody else; newest update at 3.
RecOwned == Rec(1, ViewerKey, OtherKey, <<Prop({OtherKey}, <<1, 3>>)>>)

\* Held by the viewer as custodian, and reported by the viewer in its
\* second property only; newest update at 2.
RecCustodian == Rec(2, OtherKey, ViewerKey,
                    <<Prop({OtherKey}, <<2>>), Prop({OtherKey, ViewerKey}, <<1>>)>>)

\* Reported by the viewer, owned and held by somebody else; newest update
\* at 3 (a tie with RecOwned).
RecReported == Rec(3, OtherKey, OtherKey, <<Prop({ViewerKey}, <<3>>)>>)

RecordPool == {RecOwned, RecCustodian, RecReported}

Range(s) == {s[k] : k \in 1..Len(s)}

\* Sequences of pairwise different elements of S, of length at most n.
RECURSIVE DistinctSeqs(_, _)
DistinctSeqs(S, n) ==
    IF n = 0 THEN {<<>>}
    ELSE LET shorter == DistinctSeqs(S, n - 1)
         IN  shorter \cup
             {Append(p[1], p[2]) :
                p \in {q \in shorter \X S : Len(q[1]) = n - 1 /\ q[2] \notin Range(q[1])}}

\* What GET records?recordType=load may answer: any collection of at most
\* MaxRecs loads of the pool, in any order.
ListResponses == DistinctSeqs(RecordPool, MaxRecs)

\* The answers used where several view instances run side by side.
FewListResponses == {<<>>, <<RecCustodian, RecOwned>>}

Owner(name, timestamp) == [name |-> name, timestamp |-> timestamp]

\* What GET records/<id>/owners may answer.
OwnerResponses == {<<>>, <<Owner("alice", 1)>>, <<Owner("alice", 1), Owner("bob", 2)>>}

\* A full page of loads of the viewer, all updated at time 1: the smallest
\* collection for which the paging controls offer a second page.
FullPage == [k \in 1..PAGE_SIZE |->
               Rec(100 + k, ViewerKey, OtherKey, <<Prop({OtherKey}, <<1>>)>>)]

\* The answers of a backend whose ledger holds a full page of loads at one
\* time and a single load at another.
PagingResponses == {FullPage, <<RecOwned>>}

(* ------------------------------ pure helpers -------------------------- *)

Max(a, b) == IF a >= b THEN a ELSE b

RECURSIVE MaxOfSeq(_)
MaxOfSeq(s) == IF s = <<>> THEN 0 ELSE Max(Head(s), MaxOfSeq(Tail(s)))

\* utils/records: the newest timestamp among the updates of all properties.
getLatestPropertyUpdateTime(record) ==
    LET RECURSIVE Newest(_)
        Newest(props) ==
            IF props = <<>> THEN 0
            ELSE Max(MaxOfSeq(Head(props).updates), Newest(Tail(props)))
    IN  Newest(record.properties)

\* The comparator handed to Array.prototype.sort: negative when a goes first.
compareAsc(a, b) == getLatestPropertyUpdateTime(a) - getLatestPropertyUpdateTime(b)
compare(a, b) == getLatestPropertyUpdateTime(b) - getLatestPropertyUpdateTime(a)

\* x put into the sorted sequence t, behind every element that does not
\* have to follow it (a stable sort).
RECURSIVE Insert(_, _)
Insert(t, x) ==
    IF t = <<>> THEN <<x>>
    ELSE IF compare(Head(t), x) > 0 THEN <<x>> \o t
         ELSE <<Head(t)>> \o Insert(Tail(t), x)

\* records.sort(compare)
RECURSIVE sort(_)
sort(s) == IF s = <<>> THEN <<>>
           ELSE Insert(sort(SubSeq(s, 1, Len(s) - 1)), s[Len(s)])

\* record.properties.reduce((owned, prop) =>
\*     owned || prop.reporters.indexOf(publicKey) > -1, false)
RECURSIVE reduceReporters(_, _, _)
reduceReporters(props, key, owned) ==
    IF props = <<>> THEN owned
    ELSE reduceReporters(Tail(props), key, owned \/ key \in Head(props).reporters)

FilterModes == {"owned", "custodian", "reporting"}

filterConditionSwapped(filter, record, key) ==
    CASE filter = "owned" -> record.custodian = key
      [] filter = "custodian" -> record.owner = key
      [] filter = "reporting" -> reduceReporters(record.properties, key, FALSE)

\* The predicate that the switch of _filterRecords picks for a filter tag.
filterCondition(filter, record, key) ==
    CASE filter = "owned" -> record.owner = key
      [] filter = "custodian" -> record.custodian = key
      [] filter = "reporting" -> reduceReporters(record.properties, key, FALSE)

\* _filterRecords(vnode, publicKey, filter) on the state st of a list view.
filterRecords(st, key, filter) ==
    IF key # NoKey
    THEN IF filter \in FilterModes
         THEN LET Keep(r) == filterCondition(filter, r, key)
              IN  [st EXCEPT !.filteredRecords = SelectSeq(st.records, Keep)]
         ELSE [st EXCEPT !.filteredRecords = st.records]
    ELSE st

(* --------------------------------- state ------------------------------ *)

VARIABLES
    publicKey,   \* api.getPublicKey(): NoKey or the viewer's key
    _filter,     \* the module-level _filter of the list view
    vnode,       \* per view instance: its kind, whether it is mounted, vnode.state
    inflight,    \* per view instance: the api.get requests not yet answered
    timers,      \* the pending setTimeout timers: [id, inst]
    microtask,   \* the instance whose second .then() callback is queued, or NoInst
    lastResp,    \* history: per instance, the collection its latest response carried
    selected,    \* history: the filter button the viewer pressed last
    selectedIn   \* history: the instance it was pressed in, or NoInst

vars == <<publicKey, _filter, vnode, inflight, timers, microtask, lastResp, selected, selectedIn>>

\* A slot no oninit has used yet.
Unused == [kind |-> "none", mounted |-> FALSE, records |-> <<>>,
           filteredRecords |-> <<>>, provenance |-> <<>>, currentPage |-> 0,
           refreshId |-> 0, property |-> <<>>]

\* An instance that was removed and that no request or timer refers to any
\* more: nothing can reach its vnode, and its state is dropped.
Gone == [kind |-> "gone", mounted |-> FALSE, records |-> <<>>,
         filteredRecords |-> <<>>, provenance |-> <<>>, currentPage |-> 0,
         refreshId |-> 0, property |-> <<>>]

\* FishList.oninit up to the call of refresh: vnode.state.records = [],
\* filteredRecords = [], currentPage = 0; refreshId is not set yet (0).
ListInit == [kind |-> "list", mounted |-> TRUE, records |-> <<>>,
             filteredRecords |-> <<>>, provenance |-> <<>>, currentPage |-> 0,
             refreshId |-> 0, property |-> <<>>]

\* ProvenancePage.oninit up to the call of refresh: currentPage = 0; provenance
\* is not set yet, which the view reads as [] (the default of _.get).  Nor is
\* vnode.state.property, the property whose reporters the view looks up: the
\* field holds <<>> while unset and <<p>> once it is the property p.
ProvInit == [kind |-> "prov", mounted |-> TRUE, records |-> <<>>,
             filteredRecords |-> <<>>, provenance |-> <<>>, currentPage |-> 0,
             refreshId |-> 0, property |-> <<>>]

Created(i) == vnode[i].kind # "none"

\* An instance whose onbeforeremove has run.
Removed(i) == Created(i) /\ ~vnode[i].mounted

\* The part of an instance that is vnode.state.
ViewState(st) == <<st.records, st.filteredRecords, st.provenance,
                   st.currentPage, st.refreshId>>

TimersOf(i) == {t \in timers : t.inst = i}

Init ==
    /\ publicKey \in {NoKey, ViewerKey}
    /\ _filter = Undefined
    /\ vnode = [i \in Inst |-> Unused]
    /\ inflight = [i \in Inst |-> 0]
    /\ timers = {}
    /\ microtask = NoInst
    /\ lastResp = [i \in Inst |-> <<>>]
    /\ selected = "All"
    /\ selectedIn = NoInst

(* -------------------------------- actions ----------------------------- *)

\* refresh(): api.get(...) is sent; the callbacks run when it is answered.
refresh(i) == inflight' = [inflight EXCEPT ![i] = @ + 1]

\* oninit of a new instance of either view; it ends by calling refresh().
Activate(kind) ==
    /\ microtask = NoInst
    /\ \E i \in Inst :
         /\ ~Created(i)
         /\ \A j \in Inst : j < i => Created(j)
         /\ vnode' = [vnode EXCEPT ![i] = IF kind = "list" THEN ListInit ELSE ProvInit]
         /\ refresh(i)
    /\ UNCHANGED <<publicKey, _filter, timers, microtask, lastResp, selected, selectedIn>>

\* The first .then() callback of the list view's refresh, without the call
\* of _filterRecords.
ListThenNoFilter(st, key, filter, resp) == [st EXCEPT !.records = sort(resp)]

\* The first .then() callback of the list view's refresh, storing nothing.
ListThenNoStore(st, key, filter, resp) == st

\* The first .then() callback of the list view's refresh, filtering with a
\* filter of the instance's own that nothing has set.
ListThenOwnFilter(st, key, filter, resp) ==
    filterRecords([st EXCEPT !.records = sort(resp)], key, Undefined)

\* The first .then() callback of the list view's refresh, adding the
\* response to the records already held.
ListThenAppending(st, key, filter, resp) ==
    filterRecords([st EXCEPT !.records = sort(st.records \o resp)], key, filter)

\* The first .then() callback of the list view's refresh: store the
\* records, sort them, filter them with the module-level _filter.
ListThen(st, key, filter, resp) ==
    filterRecords([st EXCEPT !.records = sort(resp)], key, filter)

\* The first .then() callback of the provenance view's refresh, storing
\* a property reported by the viewer as well.
ProvThenWithProperty(st, resp) ==
    [st EXCEPT !.provenance = resp, !.property = <<Prop({ViewerKey}, <<1>>)>>]

\* The first .then() callback of the provenance view's refresh.
ProvThen(st, resp) == [st EXCEPT !.provenance = resp]

\* The request of instance i is answered with resp: the first .then()
\* callback runs and the second one is queued.
FetchSucceeds(i, resp) ==
    /\ microtask = NoInst
    /\ inflight[i] > 0
    /\ resp \in IF vnode[i].kind = "list" THEN ListResponses \cup PagingResponses
                ELSE OwnerResponses
    /\ inflight' = [inflight EXCEPT ![i] = @ - 1]
    /\ vnode' = [vnode EXCEPT ![i] =
                   IF @.kind = "list" THEN ListThen(@, publicKey, _filter, resp)
                   ELSE ProvThen(@, resp)]
    /\ lastResp' = [lastResp EXCEPT ![i] = resp]
    /\ microtask' = i
    /\ UNCHANGED <<publicKey, _filter, timers, selected, selectedIn>>

\* A failing request whose handler empties the displayed collections.
FetchFailsClearing(i) ==
    /\ microtask = NoInst
    /\ inflight[i] > 0
    /\ inflight' = [inflight EXCEPT ![i] = @ - 1]
    /\ vnode' = [vnode EXCEPT ![i].records = <<>>, ![i].filteredRecords = <<>>,
                              ![i].provenance = <<>>]
    /\ UNCHANGED <<publicKey, _filter, timers, microtask, lastResp, selected, selectedIn>>

\* The request of instance i fails: the promise is rejected, neither
\* callback runs, and nothing handles the rejection.
FetchFails(i) ==
    /\ microtask = NoInst
    /\ inflight[i] > 0
    /\ inflight' = [inflight EXCEPT ![i] = @ - 1]
    /\ UNCHANGED <<publicKey, _filter, vnode, timers, microtask, lastResp, selected, selectedIn>>

\* An id setTimeout has not handed out to anything that still refers to one.
NewTimerId(i) ==
    LET used == {t.id : t \in timers} \cup {vnode[j].refreshId : j \in Inst \ {i}}
    IN  CHOOSE n \in 1..(2 * MaxInst + 1) :
            n \notin used /\ \A k \in 1..(n - 1) : k \in used

\* The second .then() callback, not keeping the id setTimeout returns.
ScheduleNextForgetful(i) ==
    /\ microtask = i
    /\ timers' = timers \cup {[id |-> NewTimerId(i), inst |-> i]}
    /\ microtask' = NoInst
    /\ UNCHANGED <<publicKey, _filter, vnode, inflight, lastResp, selected, selectedIn>>

\* The second .then() callback: vnode.state.refreshId = setTimeout(refresh, ...)
ScheduleNext(i) ==
    /\ microtask = i
    /\ LET id == NewTimerId(i)
       IN  /\ timers' = timers \cup {[id |-> id, inst |-> i]}
           /\ vnode' = [vnode EXCEPT ![i].refreshId = id]
    /\ microtask' = NoInst
    /\ UNCHANGED <<publicKey, _filter, inflight, lastResp, selected, selectedIn>>

\* A timer that stays pending when it expires, as one of setInterval does.
TimerExpiresRepeating(t) ==
    /\ microtask = NoInst
    /\ t \in timers
    /\ refresh(t.inst)
    /\ UNCHANGED <<publicKey, _filter, vnode, timers, microtask, lastResp, selected, selectedIn>>

\* A timer whose expiry sends no request.
TimerExpiresIdle(t) ==
    /\ microtask = NoInst
    /\ t \in timers
    /\ timers' = timers \ {t}
    /\ UNCHANGED <<publicKey, _filter, vnode, inflight, microtask, lastResp, selected, selectedIn>>

\* A pending timer expires and runs refresh().
TimerExpires(t) ==
    /\ microtask = NoInst
    /\ t \in timers
    /\ timers' = timers \ {t}
    /\ refresh(t.inst)
    /\ UNCHANGED <<publicKey, _filter, vnode, microtask, lastResp, selected, selectedIn>>

\* clearTimeout(id): the timer of that id, if it is pending, is dropped.
clearTimeout(id) == {t \in timers : t.id # id}

\* onbeforeremove: clearTimeout(vnode.state.refreshId), and the view is
\* removed.  When no request and no timer of the instance is left, nothing
\* refers to its vnode any more.
Deactivate(i) ==
    /\ microtask = NoInst
    /\ vnode[i].mounted
    /\ timers' = clearTimeout(vnode[i].refreshId)
    /\ vnode' = [vnode EXCEPT ![i] =
                   IF inflight[i] = 0 /\ \A t \in timers' : t.inst # i
                   THEN Gone
                   ELSE [@ EXCEPT !.mounted = FALSE]]
    /\ UNCHANGED <<publicKey, _filter, inflight, microtask, lastResp, selected, selectedIn>>

\* Filter buttons that also go back to the first page.
SelectFilterFirstPage(i, mode) ==
    /\ microtask = NoInst
    /\ vnode[i].mounted /\ vnode[i].kind = "list"
    /\ publicKey # NoKey
    /\ IF mode = "All"
       THEN /\ vnode' = [vnode EXCEPT ![i].filteredRecords = vnode[i].records,
                                      ![i].currentPage = 0]
            /\ UNCHANGED _filter
       ELSE /\ _filter' = mode
            /\ vnode' = [vnode EXCEPT ![i] =
                           [filterRecords(@, publicKey, mode) EXCEPT !.currentPage = 0]]
    /\ selected' = mode
    /\ selectedIn' = i
    /\ UNCHANGED <<publicKey, inflight, timers, microtask, lastResp>>

\* The filter buttons, which _controlButtons renders for an authenticated
\* viewer only.  All stores the records themselves; the other three go
\* through setFilter, which sets _filter and calls _filterRecords.
SelectFilter(i, mode) ==
    /\ microtask = NoInst
    /\ vnode[i].mounted /\ vnode[i].kind = "list"
    /\ publicKey # NoKey
    /\ IF mode = "All"
       THEN /\ vnode' = [vnode EXCEPT ![i].filteredRecords = vnode[i].records]
            /\ UNCHANGED _filter
       ELSE /\ _filter' = mode
            /\ vnode' = [vnode EXCEPT ![i] = filterRecords(@, publicKey, mode)]
    /\ selected' = mode
    /\ selectedIn' = i
    /\ UNCHANGED <<publicKey, inflight, timers, microtask, lastResp>>

\* maxPage as each view hands it to PagingButtons: floored in the list
\* view, the plain quotient in the provenance view (whose whole pages are
\* the same numbers).
maxPage(st) ==
    IF st.kind = "list" THEN Len(st.filteredRecords) \div PAGE_SIZE
    ELSE Len(st.provenance) \div PAGE_SIZE

\* The rows FishList.view hands to the table:
\* filteredRecords.slice(currentPage * PAGE_SIZE, (currentPage + 1) * PAGE_SIZE)
rows(st) ==
    LET from == st.currentPage * PAGE_SIZE
        to == (st.currentPage + 1) * PAGE_SIZE
    IN  SubSeq(st.filteredRecords, from + 1,
               IF to <= Len(st.filteredRecords) THEN to ELSE Len(st.filteredRecords))

\* ProvenancePage.view: _.get(vnode.state, 'property.reporters', [])
reporters(st) == IF st.property = <<>> THEN {} ELSE st.property[1].reporters

\* ProvenancePage.view: reporters.includes(api.getPublicKey()); the update
\* form is rendered when it is true.
isReporter(st, key) == key \in reporters(st)

\* PagingButtons calls setPage with a page clamped to 0..maxPage.
SetPage(i, page) ==
    /\ microtask = NoInst
    /\ vnode[i].mounted
    /\ page \in 0..maxPage(vnode[i])
    /\ vnode' = [vnode EXCEPT ![i].currentPage = page]
    /\ UNCHANGED <<publicKey, _filter, inflight, timers, microtask, lastResp, selected, selectedIn>>

\* Both views, any number of them mounted or removed at a time, every
\* interleaving of activation, response, failure, timer expiry, paging and
\* removal.  The filter buttons are left to ListSpec.
Next ==
    \/ \E kind \in {"list", "prov"} : Activate(kind)
    \/ \E i \in Inst : \E resp \in FewListResponses \cup OwnerResponses : FetchSucceeds(i, resp)
    \/ \E i \in Inst : FetchFails(i)
    \/ \E i \in Inst : ScheduleNext(i)
    \/ \E t \in timers : TimerExpires(t)
    \/ \E i \in Inst : Deactivate(i)
    \/ \E i \in Inst : \E page \in 0..1 : SetPage(i, page)

Spec == Init /\ [][Next]_vars

\* The list view alone is on the page, and the viewer leaves it between two
\* polls; the backend answers with any collection of ListResponses.
ActivateList == (\A j \in Inst : ~vnode[j].mounted) /\ Activate("list")

DeactivateIdle(i) == inflight[i] = 0 /\ Deactivate(i)

ListNext ==
    \/ ActivateList
    \/ \E i \in Inst : \E resp \in ListResponses : FetchSucceeds(i, resp)
    \/ \E i \in Inst : ScheduleNext(i)
    \/ \E t \in timers : TimerExpires(t)
    \/ \E i \in Inst : DeactivateIdle(i)
    \/ \E i \in Inst : \E mode \in {"All"} \cup FilterModes : SelectFilter(i, mode)
    \/ \E i \in Inst : \E page \in 0..1 : SetPage(i, page)

ListSpec == Init /\ [][ListNext]_vars

\* The list view alone on the page, with a backend that holds a full page
\* of loads or a single one.
PagingNext ==
    \/ ActivateList
    \/ \E i \in Inst : \E resp \in PagingResponses : FetchSucceeds(i, resp)
    \/ \E i \in Inst : ScheduleNext(i)
    \/ \E t \in timers : TimerExpires(t)
    \/ \E i \in Inst : DeactivateIdle(i)
    \/ \E i \in Inst : \E mode \in {"All"} \cup FilterModes : SelectFilter(i, mode)
    \/ \E i \in Inst : \E page \in 0..1 : SetPage(i, page)

PagingSpec == Init /\ [][PagingNext]_vars

\* The answers of a backend whose ledger does not change.
SteadyResponses == {<<RecCustodian, RecOwned>>, <<Owner("alice", 1)>>}

\* Both views while every request is answered, always with the same
\* collection.
LiveNext ==
    \/ \E kind \in {"list", "prov"} : Activate(kind)
    \/ \E i \in Inst : \E resp \in SteadyResponses : FetchSucceeds(i, resp)
    \/ \E i \in Inst : ScheduleNext(i)
    \/ \E t \in timers : TimerExpires(t)
    \/ \E i \in Inst : Deactivate(i)

\* The viewer is logged in (the refresh chain never reads the key).
\* The event loop runs every queued callback: the microtask as soon as it is
\* queued; a due timer and an arrived response in their turn, which comes
\* again and again although a queued microtask holds them back for a moment.
LiveInit == Init /\ publicKey = ViewerKey

LiveSpec ==
    /\ LiveInit
    /\ [][LiveNext]_vars
    /\ \A i \in Inst :
         /\ SF_vars(\E resp \in SteadyResponses : FetchSucceeds(i, resp))
         /\ WF_vars(ScheduleNext(i))
         /\ SF_vars(\E t \in TimersOf(i) : TimerExpires(t))

(* ------------------------------- properties --------------------------- *)

\* What a filter button is meant to keep, said without the code's switch.
Matches(mode, r, key) ==
    \/ mode = "All"
    \/ mode = "owned" /\ r.owner = key
    \/ mode = "custodian" /\ r.custodian = key
    \/ mode = "reporting" /\ \E k \in 1..Len(r.properties) : key \in r.properties[k].reporters

Kept(mode, recs, key) ==
    LET Keep(r) == Matches(mode, r, key) IN SelectSeq(recs, Keep)

Latest(r) == getLatestPropertyUpdateTime(r)

\* C1: once onbeforeremove has run for a view instance (list or provenance),
\* no further request is sent for that instance.
C1_NoFetchAfterRemoval ==
    [][\A i \in Inst : Removed(i) => inflight'[i] <= inflight[i]]_vars

\* C2: once onbeforeremove has run for a view instance, nothing of its
\* vnode.state (records, filteredRecords, provenance, currentPage, refreshId)
\* changes any more, whatever response arrives.
C2_NoMutationAfterRemoval ==
    [][\A i \in Inst : Removed(i) => ViewState(vnode'[i]) = ViewState(vnode[i])]_vars

\* C3: for an authenticated viewer, right after every successful fetch of a
\* list view, filteredRecords is exactly the fetched records kept by the
\* filter button the viewer pressed last (All keeps every record).
C3_LastSelectedFilterReapplied ==
    \A i \in Inst :
        (microtask = i /\ vnode[i].kind = "list" /\ publicKey # NoKey)
        => vnode[i].filteredRecords = Kept(selected, vnode[i].records, publicKey)

\* C4: for an unauthenticated viewer, right after every successful fetch of
\* a list view, filteredRecords equals the full fetched records collection.
C4_UnauthenticatedSeesAll ==
    \A i \in Inst :
        (microtask = i /\ vnode[i].kind = "list" /\ publicKey = NoKey)
        => vnode[i].filteredRecords = vnode[i].records

\* C5: pressing a filter button sets filteredRecords to exactly the current
\* records that the mode keeps: All every record, Owned those owned by the
\* viewer, Custodian those held by the viewer, Reporting those with at least
\* one property whose reporters contain the viewer.
C5_SelectionFilters ==
    [][\A i \in Inst : \A mode \in {"All"} \cup FilterModes :
          SelectFilter(i, mode)
          => vnode'[i].filteredRecords = Kept(mode, vnode[i].records, publicKey)]_vars

\* A load reported but not owned by the viewer is shown under Reporting,
\* next to an owned load that is not shown.
C5_Witness ==
    \E i \in Inst :
        /\ vnode[i].mounted /\ selected = "reporting" /\ microtask = NoInst
        /\ RecReported \in Range(vnode[i].filteredRecords)
        /\ RecOwned \in Range(vnode[i].records) \ Range(vnode[i].filteredRecords)

\* C6: in every state of a list view, every element of filteredRecords is an
\* element of the current records.
C6_FilteredSubset ==
    \A i \in Inst :
        vnode[i].kind = "list"
        => Range(vnode[i].filteredRecords) \subseteq Range(vnode[i].records)

\* A later fetch has just been stored, and a filter keeps a proper,
\* non-empty part of it.
C6_Witness ==
    \E i \in Inst :
        /\ microtask = i /\ vnode[i].kind = "list" /\ vnode[i].refreshId # 0
        /\ vnode[i].filteredRecords # <<>>
        /\ Len(vnode[i].filteredRecords) < Len(vnode[i].records)

\* C7: the records of a list view are ordered by descending latest-update
\* time (a record with a newer latest update precedes one with an older),
\* and filteredRecords lists its records in the order they have in records.
C7_SortedDescending ==
    \A i \in Inst :
        vnode[i].kind = "list" =>
            LET recs == vnode[i].records
                shown == vnode[i].filteredRecords
            IN  /\ \A a, b \in 1..Len(recs) :
                     Latest(recs[a]) > Latest(recs[b]) => a < b
                /\ \A a, b \in 1..Len(shown) :
                     a < b => \E p, q \in 1..Len(recs) :
                                 p < q /\ recs[p] = shown[a] /\ recs[q] = shown[b]

\* The response came in another order than the one stored, and two of its
\* records are shown.
C7_Witness ==
    \E i \in Inst :
        /\ microtask = i /\ vnode[i].kind = "list"
        /\ lastResp[i] # vnode[i].records
        /\ Len(vnode[i].filteredRecords) >= 2

\* C8: while a view stays mounted and every request is answered, every
\* completed fetch is eventually followed by another request of that view.
C8_PollingContinues ==
    \A i \in Inst :
        (microtask = i /\ vnode[i].mounted) ~> (inflight[i] > 0 \/ ~vnode[i].mounted)

\* A mounted view has sent a request after an earlier one was answered.
C8_Witness ==
    \E i \in Inst : vnode[i].mounted /\ vnode[i].refreshId # 0 /\ inflight[i] > 0

\* C9: per view instance at most one request is in flight, at most one timer
\* is pending, never both at once; and a request is sent only by oninit or
\* by the expiry of the instance's one pending timer.
C9_OneAtATime ==
    /\ [](\A i \in Inst :
            /\ inflight[i] <= 1
            /\ Cardinality(TimersOf(i)) <= 1
            /\ ~(inflight[i] > 0 /\ TimersOf(i) # {}))
    /\ [][\A i \in Inst :
            inflight'[i] > inflight[i]
            => \/ ~Created(i)
               \/ TimersOf(i) # {} /\ (TimersOf(i))' = {}]_vars

\* A request sent by a timer's expiry is in flight.
C9_Witness ==
    \E i \in Inst : inflight[i] = 1 /\ vnode[i].refreshId # 0 /\ TimersOf(i) = {}

\* C10: whenever a refresh timer of a view instance is pending, the state
\* already holds the response of the fetch that scheduled it: the list
\* view's records are that response (reordered), with filteredRecords taken
\* from them; the provenance view's provenance is that response.
C10_StoredBeforeScheduled ==
    \A i \in Inst :
        TimersOf(i) # {} =>
            IF vnode[i].kind = "list"
            THEN /\ Len(vnode[i].records) = Len(lastResp[i])
                 /\ Range(vnode[i].records) = Range(lastResp[i])
                 /\ Range(vnode[i].filteredRecords) \subseteq Range(lastResp[i])
            ELSE vnode[i].provenance = lastResp[i]

\* Timers are pending for a list view and a provenance view that each hold
\* a non-empty response.
C10_Witness ==
    \E i, j \in Inst :
        /\ TimersOf(i) # {} /\ vnode[i].kind = "list" /\ vnode[i].records # <<>>
        /\ TimersOf(j) # {} /\ vnode[j].kind = "prov" /\ vnode[j].provenance # <<>>

\* What the table and the paging controls of a view are drawn from.
Shown(st) == <<st.records, st.filteredRecords, st.provenance, st.currentPage>>

\* The refresh chain of instance i is alive: a request is in flight, its
\* second callback is queued, or its timer is pending.
Polling(i) == inflight[i] > 0 \/ microtask = i \/ TimersOf(i) # {}

\* C11: when a request of a view ends in an error (it ends and no callback
\* runs), records, filteredRecords, provenance and currentPage keep their
\* values, and nothing else of the view (no error state) is written.
C11_FailureLeavesStateAlone ==
    [][\A i \in Inst :
          (inflight'[i] < inflight[i] /\ microtask' # i)
          => Shown(vnode'[i]) = Shown(vnode[i]) /\ vnode' = vnode]_vars

\* A mounted view shows data and its chain has stopped: its latest request
\* failed.
C11_Witness ==
    \E i \in Inst :
        /\ vnode[i].mounted /\ ~Polling(i)
        /\ (vnode[i].records # <<>> \/ vnode[i].provenance # <<>>)

\* C12: a failed fetch does not end polling: as long as a view is mounted,
\* its refresh chain is alive (a request in flight, a callback queued or a
\* timer pending), so that another fetch follows.
C12_PollingSurvivesFailure ==
    \A i \in Inst : vnode[i].mounted => Polling(i)

\* C13: when the viewer pressed Owned, Custodian or Reporting in an earlier
\* activation of the list view and has pressed nothing in the new instance,
\* the first data arrival of the new instance is filtered with that mode.
C13_FilterPersists ==
    \A i \in Inst :
        (/\ microtask = i /\ vnode[i].kind = "list" /\ vnode[i].refreshId = 0
         /\ selected \in FilterModes /\ selectedIn \notin {NoInst, i})
        => vnode[i].filteredRecords = Kept(selected, vnode[i].records, publicKey)

\* The first data of a re-activated list view has arrived and the filter
\* pressed in an earlier instance has dropped a record from it.
C13_Witness ==
    \E i \in Inst :
        /\ microtask = i /\ vnode[i].kind = "list" /\ vnode[i].refreshId = 0
        /\ selected \in FilterModes /\ selectedIn \notin {NoInst, i}
        /\ vnode[i].filteredRecords # <<>>
        /\ Len(vnode[i].filteredRecords) < Len(vnode[i].records)

\* C14: in a list view currentPage is changed by setPage only: pressing a
\* filter button and the arrival of data leave it as it is.
C14_OnlySetPageTurnsPages ==
    [][\A i \in Inst :
          (/\ vnode[i].kind = "list" /\ vnode'[i].kind = "list"
           /\ vnode'[i].currentPage # vnode[i].currentPage)
          => \E page \in 0..maxPage(vnode[i]) : SetPage(i, page)]_vars

\* The view is on its second page, a filter was pressed in it, and data has
\* just arrived.
C14_Witness ==
    \E i \in Inst :
        /\ microtask = i /\ vnode[i].kind = "list" /\ vnode[i].currentPage = 1
        /\ selected \in FilterModes /\ selectedIn = i /\ vnode[i].refreshId # 0

\* C15: whenever filteredRecords of a mounted list view is not empty, the
\* slice of it that the table shows is not empty (setPage being called with
\* pages of 0..maxPage only).
C15_NoEmptyPage ==
    \A i \in Inst :
        (vnode[i].mounted /\ vnode[i].kind = "list" /\ vnode[i].filteredRecords # <<>>)
        => rows(vnode[i]) # <<>>

\* C16: in every state of a list view 0 <= currentPage <= maxPage, maxPage
\* being floor(length of filteredRecords / PAGE_SIZE).
C16_PageWithinBounds ==
    \A i \in Inst :
        vnode[i].kind = "list"
        => 0 <= vnode[i].currentPage /\ vnode[i].currentPage <= maxPage(vnode[i])

C18_RefreshIdempotent ==
    [][\A i \in Inst :
          (/\ microtask = NoInst /\ microtask' = i
           /\ vnode[i].refreshId # 0
           /\ lastResp'[i] = lastResp[i])
          => Shown(vnode'[i]) = Shown(vnode[i])]_vars

\* A later response has been stored, with records in another order than
\* the response lists them.
C18_Witness ==
    \E i \in Inst :
        /\ microtask = i /\ vnode[i].refreshId # 0 /\ vnode[i].mounted
        /\ vnode[i].records # <<>> /\ vnode[i].records # lastResp[i]

\* C19: refreshId names the one pending timer of its instance; a view
\* removed while that timer is pending has no timer and no request left,
\* and an instance with neither (and no callback queued) never sends a
\* request, gets a timer or changes state again.
C19_RemovalCancelsPendingTimer ==
    /\ [](\A i \in Inst :
            TimersOf(i) # {} => TimersOf(i) = {[id |-> vnode[i].refreshId, inst |-> i]})
    /\ [][\A i \in Inst :
            (vnode[i].mounted /\ ~vnode'[i].mounted /\ TimersOf(i) # {})
            => ~(Polling(i))']_vars
    /\ [][\A i \in Inst :
            (Removed(i) /\ ~Polling(i))
            => ~(Polling(i))' /\ vnode'[i] = vnode[i]]_vars

\* A view was removed while its timer was pending.
C19_Witness ==
    \E i \in Inst : vnode[i].kind = "gone" /\ lastResp[i] # <<>>

====
